---- MODULE Spec2Model ----
(***************************************************************************)
(* Verification model of the VirtualGL faker life cycle                    *)
(* (src/server/faker.cpp) and of the rrdisplayclient unit test             *)
(* (src/rr/rrdisplayserverut.cpp).                                         *)
(*                                                                         *)
(* The module holds several state machines over disjoint groups of         *)
(* variables; each specification moves one group and leaves the others at  *)
(* their initial value:                                                    *)
(*   Spec       life cycle: init, init3D, _vgl_dlopen, safeExit and the    *)
(*              GlobalCleanup destructor, with exit() also called by the   *)
(*              application                                                *)
(*   FatalSpec  the same threads when exit() is reached through safeExit   *)
(*              only, with weak fairness of every thread                   *)
(*   TeardownSpec  safeExit, exit() and the destructor alone, while the    *)
(*              application creates registries                             *)
(*   FakerSpec  _vgl_disableFaker / _vgl_enableFaker on the thread-local   *)
(*              variables                                                  *)
(*   ExcludeSpec  isDisplayStringExcluded on bounded strings               *)
(*   FrameSpec  the unit test's sessions over the frame channel            *)
(*   StripSpec  one frame of any bounded size through the frame channel    *)
(*   SockSpec   rrsocket objects: connect, close and the destructor        *)
(*   OrderSpec  safeExit and the destructor in builds with and without     *)
(*              EGLBACKEND, exit() reached through safeExit only           *)
(***************************************************************************)
EXTENDS Integers, Sequences, FiniteSets, TLC

\* ------------------------------------------------------------------ bounds

\* Number of application threads that call into the faker.
NThreads == 2

NoThread == 0
Threads == 1..NThreads

\* Bound on |FakerLevel| in the thread-local state machine.
MaxDepth == 3

\* Longest excluded-display list and longest display name, in characters.
MaxListLen == 3
MaxNameLen == 2

\* Largest <iterations> and <frames> arguments of the unit test.
MaxIter == 2
MaxFrames == 3

\* Frames the client holds at once (its pool of bitmaps), and messages the
\* connection holds in flight.
MaxQueue == 2
MaxWire == 2

\* Largest width, height and strip height of the frames of StripSpec, next to
\* the unit test's own size.
MaxDim == 3

\* Largest number of connect() and of close() calls on one rrsocket.
MaxConnects == 2
MaxCloses == 3

\* Exit codes a direct caller of safeExit passes.
ExitCodes == {1, 2}

\* Mutant of RegistryOrder: the first two statements of cleanup() swapped.
RegistryOrderSwapped == <<"vishash", "pmhash", "ctxhash", "glxdhash", "winhash">>

\* The registries of cleanup(), in the order of its statements: those of every
\* build, and those of a build with EGLBACKEND defined.
RegistryOrder == <<"pmhash", "vishash", "ctxhash", "glxdhash", "winhash">>
EglRegistryOrder == <<"epbhash", "ectxhash", "ecfghash">>
Registries ==
  {RegistryOrder[i] : i \in 1..Len(RegistryOrder)}
    \cup {EglRegistryOrder[i] : i \in 1..Len(EglRegistryOrder)}

VARIABLES
  fakerCalls,    \* per thread: calls made of _vgl_disableFaker / _vgl_enableFaker
  eglBackend,    \* the build defines EGLBACKEND
  pc,            \* position of each thread
  retTo,         \* where init() returns to: "idle" or "i3_fast" (called by init3D)
  retcode,       \* safeExit's parameter, per thread
  shutdown,      \* safeExit's local, per thread
  ki,            \* cleanup(): index of the next registry statement, per thread
  gcsAlloc,      \* GlobalCriticalSection instance exists
  mutexOwner,    \* globalMutex: owning thread
  mutexCount,    \* globalMutex: recursion depth
  initFlag,      \* static int init  (faker.cpp:147)
  initRuns,      \* completed executions of the initialization body of init()
  dpy3D,         \* vglfaker::dpy3D: 0 = NULL, else the handle
  dlopenSym,     \* __dlopen resolved
  deadYet,       \* vglfaker::deadYet
  reg,           \* per registry: "none", "alloc" or "killed"
  log,           \* teardown statements executed, in order
  cleanupBy,     \* threads that ran cleanup() to its end, in order
  exiting,       \* thread inside exit(), running the static destructors
  dtorGcs,       \* ~GlobalCleanup's local gcs is non-NULL
  dtorDone,      \* ~GlobalCleanup has finished
  exitCode,      \* status passed to exit()
  terminated,    \* the process has ended
  \* thread-local variables (VGL_THREAD_LOCAL, faker.cpp:43-50)
  tls,           \* per thread: the record of its thread-local values
  \* isDisplayStringExcluded
  exList,        \* fconfig.excludeddpys after fconfig_reloadenv()
  exName,        \* the parameter name
  exCalled,      \* isDisplayStringExcluded(exName) has been called
  exResult,      \* the value it returned
  \* unit test (rrdisplayserverut.cpp) and the frame channel it drives
  hpc,           \* position of main()
  argIter,       \* iter   = atoi(argv[1])
  argFrames,     \* frames = atoi(argv[2])
  win,           \* the window main() created
  stripHeight,   \* RR_DEFAULTSTRIPHEIGHT of the build
  hi,            \* i of the outer loop
  hf,            \* f of the inner loop
  bmp,           \* b, the frame getbitmap() returned (<<>>: none)
  created,       \* rrdisplayclient objects constructed so far
  deleted,       \* rrdisplayclient objects deleted so far
  chState,       \* session: "Closed", "Connecting", "Open"
  chError,       \* the session ended on a transport error
  sendq,         \* frames handed to sendframe() and not yet sent
  sentStrips,    \* strips of Head(sendq) written (-1: header not yet written)
  wire,          \* messages in flight to the peer
  rcv,           \* the peer's frame under reassembly (<<>>: none)
  delivered,     \* frames the peer has reassembled, in order
  submitted,     \* frames given to sendframe(), in order
  \* rrsocket (declared in rrdisplayserverut.cpp:176-213)
  sock           \* each rrsocket object: its fields and what it has released

callVars == <<retTo, retcode, shutdown, ki>>
mutexVars == <<gcsAlloc, mutexOwner, mutexCount>>
initVars == <<initFlag, initRuns, dpy3D, dlopenSym>>
cleanVars == <<reg, log, cleanupBy>>
exitVars == <<exiting, dtorGcs, dtorDone, exitCode, terminated>>

buildVars == <<eglBackend>>

lifeVars == <<buildVars, pc, callVars, mutexVars, initVars, deadYet, cleanVars,
              exitVars>>

tlsVars == <<tls, fakerCalls>>
exVars == <<exList, exName, exCalled, exResult>>

harnessVars == <<hpc, argIter, argFrames, win, stripHeight, hi, hf, bmp,
                 created, deleted>>
chanVars == <<chState, chError, sendq, sentStrips, wire, rcv, delivered,
              submitted>>
frameVars == <<harnessVars, chanVars>>

sockVars == <<sock>>

vars == <<lifeVars, tlsVars, exVars, frameVars, sockVars>>

\* ------------------------------------------------------- life cycle: state

\* The state after the library is loaded; `allocated` are the registries the
\* application's earlier calls have created.
LifeInitBuild(egl, allocated) ==
  /\ eglBackend = egl
  /\ pc = [t \in Threads |-> "idle"]
  /\ retTo = [t \in Threads |-> "idle"]
  /\ retcode = [t \in Threads |-> 0]
  /\ shutdown = [t \in Threads |-> FALSE]
  /\ ki = [t \in Threads |-> 0]
  /\ gcsAlloc = FALSE
  /\ mutexOwner = NoThread
  /\ mutexCount = 0
  /\ initFlag = 0
  /\ initRuns = 0
  /\ dpy3D = 0
  /\ dlopenSym = FALSE
  /\ deadYet = FALSE
  /\ reg = [r \in Registries |-> IF r \in allocated THEN "alloc" ELSE "none"]
  /\ log = <<>>
  /\ cleanupBy = <<>>
  /\ exiting = NoThread
  /\ dtorGcs = FALSE
  /\ dtorDone = FALSE
  /\ exitCode = 0
  /\ terminated = FALSE

\* The same for a build without EGLBACKEND.
LifeInit(allocated) == LifeInitBuild(FALSE, allocated)

\* The statements of cleanup() that the build compiles.
CleanupOrder ==
  IF eglBackend THEN RegistryOrder \o EglRegistryOrder ELSE RegistryOrder
BuildRegistries == {CleanupOrder[i] : i \in 1..Len(CleanupOrder)}

\* A thread can take a step: the process is alive and the thread is at `at`.
At(t, at) == ~terminated /\ pc[t] = at

\* Thread t of the faker moves to `to`; a step of the life cycle touches
\* none of the other state machines.
Goto(t, to) ==
  /\ pc' = [pc EXCEPT ![t] = to]
  /\ UNCHANGED <<buildVars, tlsVars, exVars, frameVars, sockVars>>

\* ------------------------------------------- GlobalCriticalSection (mutex)

\* globalMutex.lock(): the recursive mutex; `globalMutex` creates the instance.
LockGlobal(t) ==
  /\ mutexOwner \in {NoThread, t}
  /\ mutexOwner' = t
  /\ mutexCount' = mutexCount + 1
  /\ gcsAlloc' = TRUE

\* globalMutex.unlock(): one level of the recursion.
UnlockGlobal(t) ==
  /\ mutexOwner = t
  /\ mutexCount' = mutexCount - 1
  /\ mutexOwner' = IF mutexCount = 1 THEN NoThread ELSE t
  /\ UNCHANGED gcsAlloc

\* SafeLock l(globalMutex) whose scope ends at once: the mutex is taken and
\* given back in one step.
LockUnlockGlobal(t) ==
  /\ mutexOwner \in {NoThread, t}
  /\ gcsAlloc' = TRUE
  /\ UNCHANGED <<mutexOwner, mutexCount>>

\* ------------------------------------------------------------ registries

\* XxxHash::isAlloc()
isAlloc(r) == reg[r] = "alloc"

\* xxhash.kill(): the accessor creates a missing instance, kill() releases it.
kill(r) ==
  /\ reg' = [reg EXCEPT ![r] = "killed"]
  /\ log' = Append(log, r)

\* Mutant of CleanupStatement: the isAlloc() test is left out.
CleanupStatementUnguarded(r) == kill(r)

\* One statement of cleanup(): if(XxxHash::isAlloc()) xxhash.kill();
CleanupStatement(r) ==
  IF isAlloc(r) THEN kill(r) ELSE UNCHANGED <<reg, log>>

\* An intercepted call reaches a registry through its accessor for the first
\* time; callers test deadYet first.
UseRegistry(r) ==
  /\ ~terminated
  /\ ~deadYet
  /\ reg[r] = "none"
  /\ reg' = [reg EXCEPT ![r] = "alloc"]
  /\ UNCHANGED <<buildVars, pc, callVars, mutexVars, initVars, deadYet, log,
                 cleanupBy, exitVars, tlsVars, exVars, frameVars, sockVars>>

\* ----------------------------------------------------------------- init()

\* A thread calls init() (from XOpenDisplay).
CallInit(t) ==
  /\ At(t, "idle")
  /\ Goto(t, "in_fast")
  /\ retTo' = [retTo EXCEPT ![t] = "idle"]
  /\ UNCHANGED <<retcode, shutdown, ki, mutexVars, initVars, deadYet,
                 cleanVars, exitVars>>

\* return from init(): to the caller
InitReturn(t) ==
  /\ Goto(t, retTo[t])
  /\ retTo' = [retTo EXCEPT ![t] = "idle"]

\* faker.cpp:149  if(init) return;      (outside the lock)
InitFastPath(t) ==
  /\ At(t, "in_fast")
  /\ IF initFlag # 0
       THEN InitReturn(t)
       ELSE Goto(t, "in_lock") /\ UNCHANGED retTo
  /\ UNCHANGED <<retcode, shutdown, ki, mutexVars, initVars, deadYet,
                 cleanVars, exitVars>>

\* faker.cpp:150-152  SafeLock l(globalMutex);  if(init) return;  init = 1;
InitLock(t) ==
  /\ At(t, "in_lock")
  /\ IF initFlag # 0
       THEN /\ LockUnlockGlobal(t)
            /\ InitReturn(t)
            /\ UNCHANGED initFlag
       ELSE /\ LockGlobal(t)
            /\ initFlag' = 1
            /\ Goto(t, "in_body")
            /\ UNCHANGED retTo
  /\ UNCHANGED <<retcode, shutdown, ki, initRuns, dpy3D, dlopenSym, deadYet,
                 cleanVars, exitVars>>

\* faker.cpp:154-167  fconfig_reloadenv(), log redirection, XSetErrorHandler,
\* then ~SafeLock and the return
InitBody(t) ==
  /\ At(t, "in_body")
  /\ initRuns' = initRuns + 1
  /\ UnlockGlobal(t)
  /\ InitReturn(t)
  /\ UNCHANGED <<retcode, shutdown, ki, initFlag, dpy3D, dlopenSym, deadYet,
                 cleanVars, exitVars>>

\* --------------------------------------------------------------- init3D()

\* faker.cpp:172  a thread calls init3D(), whose first statement is init();
CallInit3D(t) ==
  /\ At(t, "idle")
  /\ Goto(t, "in_fast")
  /\ retTo' = [retTo EXCEPT ![t] = "i3_fast"]
  /\ UNCHANGED <<retcode, shutdown, ki, mutexVars, initVars, deadYet,
                 cleanVars, exitVars>>

\* faker.cpp:174, 255  if(!dpy3D) ... return dpy3D;     (outside the lock)
Init3DFastPath(t) ==
  /\ At(t, "i3_fast")
  /\ Goto(t, IF dpy3D # 0 THEN "idle" ELSE "i3_lock")
  /\ UNCHANGED <<callVars, mutexVars, initVars, deadYet, cleanVars, exitVars>>

\* Mutant of Init3DOpen: the second test of dpy3D is left out.
Init3DOpenUnchecked(t) ==
  /\ At(t, "i3_lock")
  /\ LockGlobal(t)
  /\ dpy3D' = t
  /\ Goto(t, "i3_unlock")
  /\ UNCHANGED <<callVars, initFlag, initRuns, dlopenSym, deadYet, cleanVars,
                 exitVars>>

\* faker.cpp:176-244  SafeLock l(globalMutex);  if(!dpy3D)
\*   dpy3D = _XOpenDisplay(...) succeeds; the handle is named after the
\*   thread that opened it.
Init3DOpen(t) ==
  /\ At(t, "i3_lock")
  /\ LockGlobal(t)
  /\ dpy3D' = IF dpy3D # 0 THEN dpy3D ELSE t
  /\ Goto(t, "i3_unlock")
  /\ UNCHANGED <<callVars, initFlag, initRuns, dlopenSym, deadYet, cleanVars,
                 exitVars>>

\* faker.cpp:176-248  SafeLock l(globalMutex);  if(!dpy3D)
\*   _XOpenDisplay() returns NULL: safeExit(1), the SafeLock still in scope
Init3DOpenFails(t) ==
  /\ At(t, "i3_lock")
  /\ dpy3D = 0
  /\ LockGlobal(t)
  /\ retcode' = [retcode EXCEPT ![t] = 1]
  /\ Goto(t, "se_lock")
  /\ UNCHANGED <<retTo, shutdown, ki, initVars, deadYet, cleanVars, exitVars>>

\* faker.cpp:253-255  ~SafeLock;  return dpy3D;
Init3DUnlock(t) ==
  /\ At(t, "i3_unlock")
  /\ UnlockGlobal(t)
  /\ Goto(t, "idle")
  /\ UNCHANGED <<callVars, initVars, deadYet, cleanVars, exitVars>>

\* ---------------------------------------------------------- _vgl_dlopen()

\* faker.cpp:299, 315  a thread calls _vgl_dlopen(): if(!__dlopen), outside the
\* lock; with the symbol resolved the call goes straight to it and returns.
DlopenFastPath(t) ==
  /\ At(t, "idle")
  /\ Goto(t, IF dlopenSym THEN "idle" ELSE "dl_lock")
  /\ UNCHANGED <<callVars, mutexVars, initVars, deadYet, cleanVars, exitVars>>

\* faker.cpp:301-307  SafeLock l(globalMutex);  if(!__dlopen)
\*   __dlopen = dlsym(RTLD_NEXT, "dlopen"): resolved already, or found now
DlopenResolve(t) ==
  /\ At(t, "dl_lock")
  /\ LockGlobal(t)
  /\ dlopenSym' = TRUE
  /\ Goto(t, "dl_unlock")
  /\ UNCHANGED <<callVars, initFlag, initRuns, dpy3D, deadYet, cleanVars,
                 exitVars>>

\* faker.cpp:301-311  dlsym() returns NULL: safeExit(1), the SafeLock in scope
DlopenResolveFails(t) ==
  /\ At(t, "dl_lock")
  /\ ~dlopenSym
  /\ LockGlobal(t)
  /\ retcode' = [retcode EXCEPT ![t] = 1]
  /\ Goto(t, "se_lock")
  /\ UNCHANGED <<retTo, shutdown, ki, initVars, deadYet, cleanVars, exitVars>>

\* faker.cpp:314-315  ~SafeLock;  return __dlopen(file, mode);
DlopenUnlock(t) ==
  /\ At(t, "dl_unlock")
  /\ UnlockGlobal(t)
  /\ Goto(t, "idle")
  /\ UNCHANGED <<callVars, initVars, deadYet, cleanVars, exitVars>>

\* -------------------------------------------------------------- safeExit()

\* Another part of the faker meets a fatal condition and calls safeExit(code).
CallSafeExit(t) ==
  /\ At(t, "idle")
  /\ \E code \in ExitCodes : retcode' = [retcode EXCEPT ![t] = code]
  /\ Goto(t, "se_lock")
  /\ UNCHANGED <<retTo, shutdown, ki, mutexVars, initVars, deadYet, cleanVars,
                 exitVars>>

\* faker.cpp:74-75  globalMutex.lock(false);  shutdown = deadYet;
SafeExitLock(t) ==
  /\ At(t, "se_lock")
  /\ LockGlobal(t)
  /\ shutdown' = [shutdown EXCEPT ![t] = deadYet]
  /\ Goto(t, "se_test")
  /\ UNCHANGED <<retTo, retcode, ki, initVars, deadYet, cleanVars, exitVars>>

\* Mutant of SafeExitTest: `deadYet = true` is left out.
SafeExitTestNoSet(t) ==
  /\ At(t, "se_test")
  /\ IF ~deadYet
       THEN /\ ki' = [ki EXCEPT ![t] = 1]
            /\ Goto(t, "se_kill")
       ELSE /\ Goto(t, "se_unlock")
            /\ UNCHANGED ki
  /\ UNCHANGED <<retTo, retcode, shutdown, mutexVars, initVars, deadYet,
                 cleanVars, exitVars>>

\* Mutant of SafeExitTest: the teardown is not guarded by deadYet.
SafeExitTestUnguarded(t) ==
  /\ At(t, "se_test")
  /\ deadYet' = TRUE
  /\ ki' = [ki EXCEPT ![t] = 1]
  /\ Goto(t, "se_kill")
  /\ UNCHANGED <<retTo, retcode, shutdown, mutexVars, initVars, cleanVars,
                 exitVars>>

\* faker.cpp:76-78  if(!deadYet) { deadYet = true;
SafeExitTest(t) ==
  /\ At(t, "se_test")
  /\ IF ~deadYet
       THEN /\ deadYet' = TRUE
            /\ ki' = [ki EXCEPT ![t] = 1]
            /\ Goto(t, "se_kill")
       ELSE /\ Goto(t, "se_unlock")
            /\ UNCHANGED <<deadYet, ki>>
  /\ UNCHANGED <<retTo, retcode, shutdown, mutexVars, initVars, cleanVars,
                 exitVars>>

\* faker.cpp:55-64  cleanup(): the next registry statement
CleanupKill(t) ==
  /\ At(t, "se_kill")
  /\ ki[t] \in 1..Len(CleanupOrder)
  /\ CleanupStatement(CleanupOrder[ki[t]])
  /\ IF ki[t] = Len(CleanupOrder)
       THEN ki' = [ki EXCEPT ![t] = 0] /\ Goto(t, "se_free")
       ELSE ki' = [ki EXCEPT ![t] = ki[t] + 1] /\ Goto(t, "se_kill")
  /\ UNCHANGED <<retTo, retcode, shutdown, mutexVars, initVars, deadYet,
                 cleanupBy, exitVars>>

\* faker.cpp:65-66  free(glExtensions);  unloadSymbols();  end of cleanup()
CleanupGlobals(t) ==
  /\ At(t, "se_free")
  /\ log' = log \o <<"glExtensions", "symbols">>
  /\ cleanupBy' = Append(cleanupBy, t)
  /\ Goto(t, "se_delete")
  /\ UNCHANGED <<callVars, mutexVars, initVars, deadYet, reg, exitVars>>

\* faker.cpp:80  fconfig_deleteinstance();
SafeExitDelete(t) ==
  /\ At(t, "se_delete")
  /\ log' = Append(log, "fconfig")
  /\ Goto(t, "se_unlock")
  /\ UNCHANGED <<callVars, mutexVars, initVars, deadYet, reg, cleanupBy,
                 exitVars>>

\* Mutant of SafeExitUnlock: the unlock is left out.
SafeExitNoUnlock(t) ==
  /\ At(t, "se_unlock")
  /\ Goto(t, "se_end")
  /\ UNCHANGED <<callVars, mutexVars, initVars, deadYet, cleanVars, exitVars>>

\* faker.cpp:82  globalMutex.unlock(false);
SafeExitUnlock(t) ==
  /\ At(t, "se_unlock")
  /\ UnlockGlobal(t)
  /\ Goto(t, "se_end")
  /\ UNCHANGED <<callVars, initVars, deadYet, cleanVars, exitVars>>

\* Mutant of SafeExitExit: exit() is given 0 instead of retcode.
SafeExitExitZero(t) ==
  /\ At(t, "se_end")
  /\ ~shutdown[t]
  /\ exiting = NoThread
  /\ exiting' = t
  /\ exitCode' = 0
  /\ Goto(t, "gc_get")
  /\ UNCHANGED <<callVars, mutexVars, initVars, deadYet, cleanVars, dtorGcs,
                 dtorDone, terminated>>

\* faker.cpp:83  if(!shutdown) exit(retcode);   no exit() is in progress: the
\* thread runs the static destructors, ~GlobalCleanup among them.
SafeExitExit(t) ==
  /\ At(t, "se_end")
  /\ ~shutdown[t]
  /\ exiting = NoThread
  /\ exiting' = t
  /\ exitCode' = retcode[t]
  /\ Goto(t, "gc_get")
  /\ UNCHANGED <<callVars, mutexVars, initVars, deadYet, cleanVars, dtorGcs,
                 dtorDone, terminated>>

\* faker.cpp:84  else pthread_exit(0);   the thread ends.  Whether the
\* automatic SafeLock objects of its callers are destroyed depends on the
\* platform's pthread_exit: here they are, and the mutex is released.
PthreadExitUnwind(t) ==
  /\ At(t, "se_end")
  /\ shutdown[t]
  /\ mutexOwner = t
  /\ mutexOwner' = NoThread
  /\ mutexCount' = 0
  /\ Goto(t, "pthread_exit")
  /\ UNCHANGED <<callVars, gcsAlloc, initVars, deadYet, cleanVars, exitVars>>

\* faker.cpp:84  else pthread_exit(0);   the thread ends and what it holds
\* stays held.
PthreadExit(t) ==
  /\ At(t, "se_end")
  /\ shutdown[t]
  /\ Goto(t, "pthread_exit")
  /\ UNCHANGED <<callVars, mutexVars, initVars, deadYet, cleanVars, exitVars>>

\* -------------------------------------------- GlobalCleanup::~GlobalCleanup

\* faker.cpp:94-95  gcs = GlobalCriticalSection::getInstance(false);
DtorGetInstance(t) ==
  /\ At(t, "gc_get")
  /\ dtorGcs' = gcsAlloc
  /\ Goto(t, IF gcsAlloc THEN "gc_lock" ELSE "gc_delete")
  /\ UNCHANGED <<callVars, mutexVars, initVars, deadYet, cleanVars, exiting,
                 dtorDone, exitCode, terminated>>

\* faker.cpp:96  if(gcs) gcs->lock(false);
DtorLock(t) ==
  /\ At(t, "gc_lock")
  /\ LockGlobal(t)
  /\ Goto(t, "gc_delete")
  /\ UNCHANGED <<callVars, initVars, deadYet, cleanVars, exitVars>>

\* faker.cpp:97  fconfig_deleteinstance(gcs);
DtorDelete(t) ==
  /\ At(t, "gc_delete")
  /\ log' = Append(log, "fconfig")
  /\ Goto(t, "gc_dead")
  /\ UNCHANGED <<callVars, mutexVars, initVars, deadYet, reg, cleanupBy,
                 exitVars>>

\* Mutant of DtorSetDead: the destructor clears the flag.
DtorClearDead(t) ==
  /\ At(t, "gc_dead")
  /\ deadYet' = FALSE
  /\ Goto(t, "gc_unlock")
  /\ UNCHANGED <<callVars, mutexVars, initVars, cleanVars, exitVars>>

\* faker.cpp:98  deadYet = true;
DtorSetDead(t) ==
  /\ At(t, "gc_dead")
  /\ deadYet' = TRUE
  /\ Goto(t, "gc_unlock")
  /\ UNCHANGED <<callVars, mutexVars, initVars, cleanVars, exitVars>>

\* faker.cpp:99-100  if(gcs) gcs->unlock(false);  the destructor returns and
\* exit() ends the process with the status it was given.
DtorUnlock(t) ==
  /\ At(t, "gc_unlock")
  /\ IF dtorGcs THEN UnlockGlobal(t) ELSE UNCHANGED mutexVars
  /\ dtorDone' = TRUE
  /\ terminated' = TRUE
  /\ Goto(t, "exited")
  /\ UNCHANGED <<callVars, initVars, deadYet, cleanVars, exiting, dtorGcs,
                 exitCode>>

\* ------------------------------------------------- exit() by the application

\* The application ends the process itself (main returns, or it calls
\* exit(0)) on a thread that is not inside the faker.
AppExit(t) ==
  /\ At(t, "idle")
  /\ exiting = NoThread
  /\ exiting' = t
  /\ exitCode' = 0
  /\ Goto(t, "gc_get")
  /\ UNCHANGED <<callVars, mutexVars, initVars, deadYet, cleanVars, dtorGcs,
                 dtorDone, terminated>>

\* faker.cpp:83  exit(retcode) while another thread's exit() is in progress:
\* the C library leaves this undefined.  The second caller waits for ever ...
SecondExitBlocks(t) ==
  /\ At(t, "se_end")
  /\ ~shutdown[t]
  /\ exiting # NoThread
  /\ Goto(t, "exit_blocked")
  /\ UNCHANGED <<callVars, mutexVars, initVars, deadYet, cleanVars, exitVars>>

\* ... or finds no destructor left to run and ends the process at once.
SecondExitEnds(t) ==
  /\ At(t, "se_end")
  /\ ~shutdown[t]
  /\ exiting # NoThread
  /\ exitCode' = retcode[t]
  /\ terminated' = TRUE
  /\ Goto(t, "exited")
  /\ UNCHANGED <<callVars, mutexVars, initVars, deadYet, cleanVars, exiting,
                 dtorGcs, dtorDone>>

\* ------------------------------------------------- thread-local variables

\* VGL_THREAD_LOCAL(name, type, default): what a thread reads before it has
\* set the variable.
TlsDefault ==
  [TraceLevel |-> 0, FakerLevel |-> 0, ExcludeCurrent |-> FALSE,
   AutotestColor |-> -1, AutotestRColor |-> -1, AutotestFrame |-> -1,
   AutotestDisplay |-> 0, AutotestDrawable |-> 0]

TlsInit ==
  /\ tls = [t \in Threads |-> TlsDefault]
  /\ fakerCalls = [t \in Threads |-> [disable |-> 0, enable |-> 0]]

getFakerLevel(t) == tls[t].FakerLevel
getExcludeCurrent(t) == tls[t].ExcludeCurrent

\* Mutant of DisableFaker: the two variables are shared by all threads.
DisableFakerShared(t) ==
  /\ fakerCalls[t].disable < MaxDepth
  /\ tls' = [u \in Threads |->
               [tls[u] EXCEPT !.FakerLevel = tls[u].FakerLevel + 1,
                              !.ExcludeCurrent = TRUE]]
  /\ fakerCalls' = [fakerCalls EXCEPT ![t].disable = @ + 1]
  /\ UNCHANGED <<lifeVars, exVars, frameVars, sockVars>>

\* faker.cpp:341-345  _vgl_disableFaker()
DisableFaker(t) ==
  /\ fakerCalls[t].disable < MaxDepth
  /\ tls' = [tls EXCEPT ![t].FakerLevel = getFakerLevel(t) + 1,
                        ![t].ExcludeCurrent = TRUE]
  /\ fakerCalls' = [fakerCalls EXCEPT ![t].disable = @ + 1]
  /\ UNCHANGED <<lifeVars, exVars, frameVars, sockVars>>

\* Mutant of EnableFaker: the level is not taken below zero.
EnableFakerClamped(t) ==
  /\ fakerCalls[t].enable < MaxDepth
  /\ tls' = [tls EXCEPT ![t].FakerLevel =
                          IF getFakerLevel(t) > 0 THEN getFakerLevel(t) - 1
                          ELSE 0,
                        ![t].ExcludeCurrent = FALSE]
  /\ fakerCalls' = [fakerCalls EXCEPT ![t].enable = @ + 1]
  /\ UNCHANGED <<lifeVars, exVars, frameVars, sockVars>>

\* faker.cpp:347-351  _vgl_enableFaker()
EnableFaker(t) ==
  /\ fakerCalls[t].enable < MaxDepth
  /\ tls' = [tls EXCEPT ![t].FakerLevel = getFakerLevel(t) - 1,
                        ![t].ExcludeCurrent = FALSE]
  /\ fakerCalls' = [fakerCalls EXCEPT ![t].enable = @ + 1]
  /\ UNCHANGED <<lifeVars, exVars, frameVars, sockVars>>

\* ------------------------------------------------ isDisplayStringExcluded

Letters == {"a", "A", "b"}
\* faker.cpp:264  the delimiters given to strtok(): ", \t"
Delims == {",", " ", "\t"}
Chars == Letters \cup Delims

\* the strings of at most n characters
Strings(n) == UNION {[1..k -> Chars] : k \in 0..n}

\* tolower() in the C locale
ToLower(c) == IF c = "A" THEN "a" ELSE c

\* strcmp(a, b) == 0, the mutant of strcasecmpZero
strcmpZero(a, b) == a = b

\* strcasecmp(a, b) == 0: the strings end together and agree character by
\* character after tolower()
strcasecmpZero(a, b) ==
  /\ Len(a) = Len(b)
  /\ \A i \in 1..Len(a) : ToLower(a[i]) = ToLower(b[i])

\* strtok(): index of the first character at or after p that is no delimiter
\* (Len(s) + 1: none, strtok returns NULL)
RECURSIVE TokenStart(_, _)
TokenStart(s, p) ==
  IF p > Len(s) THEN Len(s) + 1
  ELSE IF s[p] \in Delims THEN TokenStart(s, p + 1)
  ELSE p

\* strtok(): index of the first delimiter at or after p (Len(s) + 1: the
\* token runs to the end of the string)
RECURSIVE TokenEnd(_, _)
TokenEnd(s, p) ==
  IF p > Len(s) THEN Len(s) + 1
  ELSE IF s[p] \in Delims THEN p
  ELSE TokenEnd(s, p + 1)

\* faker.cpp:264-274  the loop over strtok(), which resumes at position p
RECURSIVE ExcludedFrom(_, _, _)
ExcludedFrom(name, dpyList, p) ==
  LET b == TokenStart(dpyList, p)
      e == TokenEnd(dpyList, b)
  IN  IF b > Len(dpyList) THEN FALSE
      ELSE IF strcasecmpZero(name, SubSeq(dpyList, b, e - 1)) THEN TRUE
      ELSE ExcludedFrom(name, dpyList, e + 1)

\* faker.cpp:259-275  isDisplayStringExcluded(name)
isDisplayStringExcluded(name, dpyList) == ExcludedFrom(name, dpyList, 1)

ExInit ==
  /\ exList \in Strings(MaxListLen)
  /\ exName \in Strings(MaxNameLen)
  /\ exCalled = FALSE
  /\ exResult = FALSE

ExIdle ==
  /\ exList = <<>>
  /\ exName = <<>>
  /\ exCalled = FALSE
  /\ exResult = FALSE

\* a call of isDisplayStringExcluded(exName) with exList configured
CallIsExcluded ==
  /\ ~exCalled
  /\ exCalled' = TRUE
  /\ exResult' = isDisplayStringExcluded(exName, exList)
  /\ UNCHANGED <<exList, exName, lifeVars, tlsVars, frameVars, sockVars>>

\* ---------------------------------------------------------- frame channel

\* rrdisplayserverut.cpp:16-17
WIDTH == 301
HEIGHT == 301
\* rrdisplayserverut.cpp:71  getbitmap(WIDTH, HEIGHT, 3): bytes per pixel
PixelSize == 3
\* rrdisplayserverut.cpp:74  b->_h.qual=50;
TestQual == 50

\* the subsampling modes, in the order of their wire values
Subsamps == <<"RR_444", "RR_422", "RR_411">>

\* the frame main() builds in iteration i, frame f
TestFrame(i, f) ==
  [i |-> i, f |-> f, w |-> WIDTH, h |-> HEIGHT, qual |-> 0, subsamp |-> "RR_444",
   winid |-> 0, sh |-> 0]

\* a value as n bytes, least significant first
RECURSIVE ToBytes(_, _)
ToBytes(v, n) == IF n = 0 THEN <<>> ELSE <<v % 256>> \o ToBytes(v \div 256, n - 1)

\* the value of bytes b[from..from+n-1], least significant first
RECURSIVE FromBytes(_, _, _)
FromBytes(b, from, n) ==
  IF n = 0 THEN 0 ELSE b[from] + 256 * FromBytes(b, from + 1, n - 1)

SubsampCode(name) == CHOOSE k \in 1..Len(Subsamps) : Subsamps[k] = name

\* The wire header: width:int32, height:int32, quality:int8, subsampling,
\* window id:uint32, strip height:int32.
EncodeHeader(fr) ==
  ToBytes(fr.w, 4) \o ToBytes(fr.h, 4) \o ToBytes(fr.qual, 1)
    \o ToBytes(SubsampCode(fr.subsamp) - 1, 1) \o ToBytes(fr.winid, 4)
    \o ToBytes(fr.sh, 4)

DecodeHeader(b) ==
  [w |-> FromBytes(b, 1, 4), h |-> FromBytes(b, 5, 4),
   qual |-> FromBytes(b, 9, 1), subsamp |-> Subsamps[FromBytes(b, 10, 1) + 1],
   winid |-> FromBytes(b, 11, 4), sh |-> FromBytes(b, 15, 4)]

HeaderOf(fr) ==
  [w |-> fr.w, h |-> fr.h, qual |-> fr.qual, subsamp |-> fr.subsamp,
   winid |-> fr.winid, sh |-> fr.sh]

\* declared payload size of a frame with header h
PayloadSize(h) == h.w * h.h * PixelSize

\* mutant of StripRows: every strip, the last one too, has sh rows
StripRowsFull(h, sh, k) == sh

\* rows of strip k (k = 0, 1, ...) of a frame of height h cut every sh rows
StripRows(h, sh, k) == IF (k + 1) * sh <= h THEN sh ELSE h - k * sh

\* bytes of strip k of a frame with header h
StripLen(h, k) == StripRows(h.h, h.sh, k) * h.w * PixelSize

\* the sender has written the last strip when the rows written reach the height
LastStripSent(h, k) == k * h.sh >= h.h

\* mutant of Enqueue: the newest frame is sent first
EnqueueFirst(q, fr) == <<fr>> \o q

\* sendframe() hands the frame to the channel: it joins the end of the queue
Enqueue(q, fr) == Append(q, fr)

FrameIdle ==
  /\ hpc = "done"
  /\ argIter = 1
  /\ argFrames = 1
  /\ win = 1
  /\ stripHeight = 1
  /\ hi = 0
  /\ hf = 0
  /\ created = 0
  /\ deleted = 0
  /\ bmp = <<>>
  /\ chState = "Closed"
  /\ chError = FALSE
  /\ sendq = <<>>
  /\ sentStrips = -1
  /\ wire = <<>>
  /\ rcv = <<>>
  /\ delivered = <<>>
  /\ submitted = <<>>

\* window ids XCreateSimpleWindow may return, strip heights a build may define
WindowIds == {1, 4194305}
StripHeights == {64, 301}

\* rrdisplayserverut.cpp:28-58  main() has parsed valid arguments, opened the
\* display and created the window; the loop is about to start.
HarnessInit ==
  /\ hpc = "new"
  /\ argIter \in 1..MaxIter
  /\ argFrames \in 1..MaxFrames
  /\ win \in WindowIds
  /\ stripHeight \in StripHeights
  /\ hi = 0
  /\ hf = 0
  /\ created = 0
  /\ deleted = 0
  /\ bmp = <<>>
  /\ chState = "Closed"
  /\ chError = FALSE
  /\ sendq = <<>>
  /\ sentStrips = -1
  /\ wire = <<>>
  /\ rcv = <<>>
  /\ delivered = <<>>
  /\ submitted = <<>>

NotFrame == UNCHANGED <<lifeVars, tlsVars, exVars, sockVars>>

\* the session ends: what is queued or in flight is dropped
CloseSession ==
  /\ chState' = "Closed"
  /\ sendq' = <<>>
  /\ sentStrips' = -1
  /\ wire' = <<>>
  /\ rcv' = <<>>

\* rrdisplayserverut.cpp:68  new rrdisplayclient(clientname, port, usessl)
HarnessNew ==
  /\ hpc = "new"
  /\ chState = "Closed"
  /\ chState' = "Connecting"
  /\ chError' = FALSE
  /\ hpc' = "connect"
  /\ hf' = 0
  /\ UNCHANGED <<created, deleted, argIter, argFrames, win, stripHeight, hi,
                 bmp, sendq,
                 sentStrips, wire, rcv, delivered, submitted>>
  /\ NotFrame

\* the constructor's connect() succeeds
HarnessConnected ==
  /\ hpc = "connect"
  /\ chState' = "Open"
  /\ created' = created + 1
  /\ hpc' = "getbitmap"
  /\ UNCHANGED <<deleted, argIter, argFrames, win, stripHeight, hi, hf, bmp,
                 chError,
                 sendq, sentStrips, wire, rcv, delivered, submitted>>
  /\ NotFrame

\* the constructor's connect() fails: it throws, caught at line 82
HarnessConnectFails ==
  /\ hpc = "connect"
  /\ chState' = "Closed"
  /\ hpc' = "caught"
  /\ UNCHANGED <<created, deleted, argIter, argFrames, win, stripHeight, hi,
                 hf, bmp, chError,
                 sendq, sentStrips, wire, rcv, delivered, submitted>>
  /\ NotFrame

\* rrdisplayserverut.cpp:71  b=rrdpy->getbitmap(WIDTH, HEIGHT, 3): waits for a
\* free bitmap of the pool
HarnessGetBitmap ==
  /\ hpc = "getbitmap"
  /\ ~chError
  /\ Len(sendq) < MaxQueue
  /\ bmp' = TestFrame(hi, hf)
  /\ hpc' = "fill"
  /\ UNCHANGED <<created, deleted, argIter, argFrames, win, stripHeight, hi,
                 hf, chanVars>>
  /\ NotFrame

\* rrdisplayserverut.cpp:72-76  the pixels, then qual, subsamp, winid and
\* _strip_height
HarnessFill ==
  /\ hpc = "fill"
  /\ bmp' = [bmp EXCEPT !.qual = TestQual, !.subsamp = "RR_411",
                        !.winid = win, !.sh = stripHeight]
  /\ hpc' = "sendframe"
  /\ UNCHANGED <<created, deleted, argIter, argFrames, win, stripHeight, hi,
                 hf, chanVars>>
  /\ NotFrame

\* Mutant of HarnessSendFrame: the inner loop ends after its first frame.
HarnessSendFrameOnce ==
  /\ hpc = "sendframe"
  /\ ~chError
  /\ sendq' = Enqueue(sendq, bmp)
  /\ submitted' = Append(submitted, bmp)
  /\ bmp' = <<>>
  /\ hf' = hf + 1
  /\ hpc' = "delete"
  /\ UNCHANGED <<created, deleted, argIter, argFrames, win, stripHeight, hi,
                 chState, chError, sentStrips, wire, rcv, delivered>>
  /\ NotFrame

\* rrdisplayserverut.cpp:69, 77  rrdpy->sendframe(b);  f++
HarnessSendFrame ==
  /\ hpc = "sendframe"
  /\ ~chError
  /\ sendq' = Enqueue(sendq, bmp)
  /\ submitted' = Append(submitted, bmp)
  /\ bmp' = <<>>
  /\ hf' = hf + 1
  /\ hpc' = IF hf + 1 < argFrames THEN "getbitmap" ELSE "delete"
  /\ UNCHANGED <<created, deleted, argIter, argFrames, win, stripHeight, hi,
                 chState, chError,
                 sentStrips, wire, rcv, delivered>>
  /\ NotFrame

\* rrdisplayserverut.cpp:71, 77, 82  getbitmap() or sendframe() finds the
\* session ended by an error and throws, or getbitmap() returns NULL and
\* errifnot() throws; control goes to the handler of line 82, outside the loop
HarnessThrows ==
  /\ hpc \in {"getbitmap", "sendframe"}
  /\ chError \/ hpc = "getbitmap"
  /\ hpc' = "caught"
  /\ UNCHANGED <<created, deleted, argIter, argFrames, win, stripHeight, hi,
                 hf, bmp, chanVars>>
  /\ NotFrame

\* rrdisplayserverut.cpp:65, 79  delete rrdpy;  i++
HarnessDelete ==
  /\ hpc = "delete"
  /\ CloseSession
  /\ deleted' = deleted + 1
  /\ hi' = hi + 1
  /\ hpc' = IF hi + 1 < argIter THEN "new" ELSE "done"
  /\ UNCHANGED <<created, argIter, argFrames, win, stripHeight, hf, bmp,
                 chError,
                 delivered, submitted>>
  /\ NotFrame

\* rrdisplayserverut.cpp:82-85  after the handler: the window and the display
\* are released and main() returns
HarnessCaught ==
  /\ hpc = "caught"
  /\ hpc' = "done"
  /\ UNCHANGED <<created, deleted, argIter, argFrames, win, stripHeight, hi,
                 hf, bmp, chanVars>>
  /\ NotFrame

\* the channel writes the header of the oldest queued frame
SendHeader ==
  /\ chState = "Open"
  /\ sendq # <<>>
  /\ sentStrips = -1
  /\ Len(wire) < MaxWire
  /\ wire' = Append(wire, [kind |-> "header", i |-> Head(sendq).i,
                           f |-> Head(sendq).f,
                           bytes |-> EncodeHeader(Head(sendq))])
  /\ sentStrips' = 0
  /\ UNCHANGED <<harnessVars, chState, chError, sendq, rcv, delivered,
                 submitted>>
  /\ NotFrame

\* the channel writes the next strip of the frame; after the last one the
\* bitmap goes back to the pool
SendStrip ==
  /\ chState = "Open"
  /\ sendq # <<>>
  /\ sentStrips >= 0
  /\ Len(wire) < MaxWire
  /\ wire' = Append(wire, [kind |-> "strip", i |-> Head(sendq).i,
                           f |-> Head(sendq).f,
                           len |-> StripLen(HeaderOf(Head(sendq)), sentStrips)])
  /\ IF LastStripSent(HeaderOf(Head(sendq)), sentStrips + 1)
       THEN sendq' = Tail(sendq) /\ sentStrips' = -1
       ELSE sentStrips' = sentStrips + 1 /\ UNCHANGED sendq
  /\ UNCHANGED <<harnessVars, chState, chError, rcv, delivered, submitted>>
  /\ NotFrame

\* the peer reads a header
RecvHeader ==
  /\ chState = "Open"
  /\ wire # <<>>
  /\ Head(wire).kind = "header"
  /\ rcv = <<>>
  /\ rcv' = [i |-> Head(wire).i, f |-> Head(wire).f,
             hdr |-> DecodeHeader(Head(wire).bytes), got |-> 0, strips |-> 0]
  /\ wire' = Tail(wire)
  /\ UNCHANGED <<harnessVars, chState, chError, sendq, sentStrips, delivered,
                 submitted>>
  /\ NotFrame

\* the peer reads a strip; with the declared payload size consumed the frame
\* is complete and is delivered
RecvStrip ==
  /\ chState = "Open"
  /\ wire # <<>>
  /\ Head(wire).kind = "strip"
  /\ rcv # <<>>
  /\ LET now == [rcv EXCEPT !.got = rcv.got + Head(wire).len,
                            !.strips = rcv.strips + 1]
     IN  IF now.got >= PayloadSize(rcv.hdr)
           THEN delivered' = Append(delivered, now) /\ rcv' = <<>>
           ELSE rcv' = now /\ UNCHANGED delivered
  /\ wire' = Tail(wire)
  /\ UNCHANGED <<harnessVars, chState, chError, sendq, sentStrips, submitted>>
  /\ NotFrame

\* a send or receive on the connection fails: the session ends
TransportError ==
  /\ chState = "Open"
  /\ hpc \in {"getbitmap", "fill", "sendframe"}
  /\ CloseSession
  /\ chError' = TRUE
  /\ UNCHANGED <<harnessVars, delivered, submitted>>
  /\ NotFrame

\* ---------------------------------------------------------------- rrsocket

\* The rrsocket objects of the model: one made by rrsocket(false), one by
\* rrsocket(true).
Socks == {"plain", "ssl"}

\* rrdisplayserverut.cpp:211-212  int sd;  bool dossl;  SSL *ssl;  with what
\* the object has opened and released so far.
\* status: "none" (not constructed), "live", "destroyed"
\* sd:     TRUE when sd is a descriptor, FALSE when it is INVALID_SOCKET
\* ssl:    TRUE when ssl points to a TLS session, FALSE when it is NULL
NoSock(s) ==
  [status |-> "none", dossl |-> (s = "ssl"), sd |-> FALSE, ssl |-> FALSE,
   sdOpened |-> 0, sdReleased |-> 0, sslOpened |-> 0, sslFreed |-> 0,
   closeCalls |-> 0, errors |-> 0]

SockIdle == sock = [s \in Socks |-> NoSock(s)]

NotSock == UNCHANGED <<lifeVars, tlsVars, exVars, frameVars>>

\* mutant of CloseEffect: close() releases what the fields name without
\* testing them
CloseEffectUnguarded(c) ==
  [c EXCEPT !.sd = FALSE, !.ssl = FALSE,
            !.sdReleased = c.sdReleased + 1,
            !.sslFreed = c.sslFreed + (IF c.dossl THEN 1 ELSE 0),
            !.errors = c.errors + (IF c.sd THEN 0 ELSE 1),
            !.closeCalls = c.closeCalls + 1]

\* rrdisplayserverut.cpp:183  void close(void): the TLS session is shut down
\* and freed if there is one, the descriptor is closed if there is one, and
\* the fields are reset.
CloseEffect(c) ==
  [c EXCEPT !.sd = FALSE, !.ssl = FALSE,
            !.sdReleased = c.sdReleased + (IF c.sd THEN 1 ELSE 0),
            !.sslFreed = c.sslFreed + (IF c.ssl THEN 1 ELSE 0),
            !.closeCalls = c.closeCalls + 1]

\* rrdisplayserverut.cpp:180  rrsocket(bool)
SockNew(s) ==
  /\ sock[s].status = "none"
  /\ sock' = [sock EXCEPT ![s].status = "live"]
  /\ NotSock

\* rrdisplayserverut.cpp:184  connect(char *, unsigned short) succeeds: a
\* descriptor, and with dossl a TLS session over it
SockConnect(s) ==
  /\ sock[s].status = "live"
  /\ ~sock[s].sd
  /\ sock[s].sdOpened < MaxConnects
  /\ sock' = [sock EXCEPT ![s].sd = TRUE,
                          ![s].sdOpened = @ + 1,
                          ![s].ssl = sock[s].dossl,
                          ![s].sslOpened = @ + (IF sock[s].dossl THEN 1 ELSE 0)]
  /\ NotSock

\* rrdisplayserverut.cpp:184  connect() with dossl throws in the TLS
\* handshake: the descriptor is open, there is no TLS session
SockConnectNoTls(s) ==
  /\ sock[s].status = "live"
  /\ sock[s].dossl
  /\ ~sock[s].sd
  /\ sock[s].sdOpened < MaxConnects
  /\ sock' = [sock EXCEPT ![s].sd = TRUE, ![s].sdOpened = @ + 1]
  /\ NotSock

\* rrdisplayserverut.cpp:183  close()
SockClose(s) ==
  /\ sock[s].status = "live"
  /\ sock[s].closeCalls < MaxCloses
  /\ sock' = [sock EXCEPT ![s] = CloseEffect(@)]
  /\ NotSock

\* rrdisplayserverut.cpp:182  ~rrsocket(void): the destructor closes
SockDestroy(s) ==
  /\ sock[s].status = "live"
  /\ sock' = [sock EXCEPT ![s] = [CloseEffect(@) EXCEPT !.status = "destroyed"]]
  /\ NotSock

\* ------------------------------------------------------------ specifications

InitStep(t) ==
  \/ CallInit(t) \/ InitFastPath(t) \/ InitLock(t) \/ InitBody(t)

Init3DStep(t) ==
  \/ CallInit3D(t) \/ Init3DFastPath(t) \/ Init3DOpen(t) \/ Init3DOpenFails(t)
  \/ Init3DUnlock(t)

DlopenStep(t) ==
  \/ DlopenFastPath(t) \/ DlopenResolve(t) \/ DlopenResolveFails(t)
  \/ DlopenUnlock(t)

SafeExitStep(t) ==
  \/ SafeExitLock(t) \/ SafeExitTest(t) \/ CleanupKill(t) \/ CleanupGlobals(t)
  \/ SafeExitDelete(t) \/ SafeExitUnlock(t) \/ SafeExitExit(t)
  \/ PthreadExitUnwind(t) \/ PthreadExit(t)

DtorStep(t) ==
  \/ DtorGetInstance(t) \/ DtorLock(t) \/ DtorDelete(t) \/ DtorSetDead(t)
  \/ DtorUnlock(t)

ThreadStep(t) ==
  \/ InitStep(t) \/ Init3DStep(t) \/ DlopenStep(t) \/ CallSafeExit(t)
  \/ SafeExitStep(t) \/ DtorStep(t)

\* Registries the application has created before the threads of the model run.
StartRegistries == {{}, {"vishash", "winhash"}}

Init ==
  /\ \E allocated \in StartRegistries : LifeInit(allocated)
  /\ TlsInit
  /\ ExIdle
  /\ FrameIdle
  /\ SockIdle

\* The faker's threads; exit() is reached through safeExit() only.
FatalNext ==
  \E t \in Threads : ThreadStep(t)

\* The same, and the application ends the process by itself too.
Next ==
  \/ \E t \in Threads : ThreadStep(t)
  \/ \E t \in Threads : AppExit(t) \/ SecondExitBlocks(t) \/ SecondExitEnds(t)

Spec == Init /\ [][Next]_vars

\* Shutdown alone: threads call safeExit() or end the process while the
\* application's calls create registries.
TeardownStep(t) ==
  \/ CallSafeExit(t) \/ SafeExitLock(t) \/ SafeExitTest(t) \/ CleanupKill(t)
  \/ CleanupGlobals(t) \/ SafeExitDelete(t) \/ SafeExitUnlock(t)
  \/ SafeExitExit(t) \/ PthreadExit(t) \/ DtorStep(t)
  \/ AppExit(t) \/ SecondExitBlocks(t) \/ SecondExitEnds(t)

TeardownNext ==
  \/ \E t \in Threads : TeardownStep(t)
  \/ \E r \in BuildRegistries : UseRegistry(r)

TeardownInit == LifeInit({}) /\ TlsInit /\ ExIdle /\ FrameIdle /\ SockIdle

TeardownSpec == TeardownInit /\ [][TeardownNext]_vars

\* The thread-local variables under calls of the two entry points.
FakerNext == \E t \in Threads : DisableFaker(t) \/ EnableFaker(t)

FakerInit == LifeInit({}) /\ TlsInit /\ ExIdle /\ FrameIdle /\ SockIdle

FakerSpec == FakerInit /\ [][FakerNext]_vars

\* isDisplayStringExcluded on every list and name within the bounds.
ExcludeInit == LifeInit({}) /\ TlsInit /\ ExInit /\ FrameIdle /\ SockIdle

ExcludeNext == CallIsExcluded

ExcludeSpec == ExcludeInit /\ [][ExcludeNext]_vars

\* The unit test: its sessions, the channel and the peer.
FrameInit == LifeInit({}) /\ TlsInit /\ ExIdle /\ HarnessInit /\ SockIdle

ChannelStep == SendHeader \/ SendStrip \/ RecvHeader \/ RecvStrip

FrameNext ==
  \/ HarnessNew \/ HarnessConnected \/ HarnessConnectFails \/ HarnessGetBitmap
  \/ HarnessFill \/ HarnessSendFrame \/ HarnessThrows \/ HarnessDelete
  \/ HarnessCaught
  \/ ChannelStep
  \/ TransportError

FrameSpec == FrameInit /\ [][FrameNext]_vars

\* One frame of any size within the bounds, queued on an open session.
StripDims == (1..MaxDim) \cup {HEIGHT}

StripInit ==
  /\ LifeInit({}) /\ TlsInit /\ ExIdle /\ SockIdle
  /\ hpc = "delete"
  /\ argIter = 1
  /\ argFrames = 1
  /\ win \in WindowIds
  /\ stripHeight \in StripDims \cup StripHeights
  /\ hi = 0
  /\ hf = 1
  /\ created = 1
  /\ deleted = 0
  /\ bmp = <<>>
  /\ chState = "Open"
  /\ chError = FALSE
  /\ \E w \in StripDims, h \in StripDims, q \in {1, TestQual, 100},
        ss \in {"RR_444", "RR_411"} :
       sendq = <<[i |-> 0, f |-> 0, w |-> w, h |-> h, qual |-> q,
                  subsamp |-> ss, winid |-> win, sh |-> stripHeight]>>
  /\ submitted = sendq
  /\ sentStrips = -1
  /\ wire = <<>>
  /\ rcv = <<>>
  /\ delivered = <<>>

StripNext == ChannelStep

StripSpec == StripInit /\ [][StripNext]_vars

\* Shutdown through safeExit() in both builds.
OrderStart(egl) ==
  {{}, {"vishash", "winhash"} \cup (IF egl THEN {"ectxhash"} ELSE {}),
   IF egl THEN Registries ELSE Registries \ {"epbhash", "ectxhash", "ecfghash"}}

OrderInit ==
  /\ \E egl \in BOOLEAN : \E allocated \in OrderStart(egl) :
       LifeInitBuild(egl, allocated)
  /\ TlsInit /\ ExIdle /\ FrameIdle /\ SockIdle

OrderNext ==
  \E t \in Threads :
    \/ CallSafeExit(t) \/ SafeExitLock(t) \/ SafeExitTest(t) \/ CleanupKill(t)
    \/ CleanupGlobals(t) \/ SafeExitDelete(t) \/ SafeExitUnlock(t)
    \/ SafeExitExit(t) \/ PthreadExit(t) \/ DtorStep(t)

OrderSpec == OrderInit /\ [][OrderNext]_vars

\* rrsocket objects under every order of connect, close and destruction.
SockInit == LifeInit({}) /\ TlsInit /\ ExIdle /\ FrameIdle /\ SockIdle

SockNext ==
  \E s \in Socks :
    \/ SockNew(s) \/ SockConnect(s) \/ SockConnectNoTls(s)
    \/ SockClose(s) \/ SockDestroy(s)

SockSpec == SockInit /\ [][SockNext]_vars

FatalInit == LifeInit({"vishash", "winhash"}) /\ TlsInit /\ ExIdle /\ FrameIdle /\ SockIdle

FatalSpec == FatalInit /\ [][FatalNext]_vars /\ \A t \in Threads : WF_vars(ThreadStep(t))

\* ------------------------------------------------------ life cycle: claims

InitPcs == {"in_fast", "in_lock", "in_body"}
DtorPcs == {"gc_get", "gc_lock", "gc_delete", "gc_dead", "gc_unlock"}
\* positions of safeExit() after the test of deadYet, and what follows them
AfterTestPcs == {"se_kill", "se_free", "se_delete", "se_unlock", "se_end",
                 "pthread_exit", "exit_blocked", "exited"} \cup DtorPcs
\* positions after safeExit()'s call of fconfig_deleteinstance()
AfterDeletePcs == {"se_unlock", "se_end", "exit_blocked", "exited"} \cup DtorPcs

\* threads that found deadYet false in safeExit() / that found it true
Winners == {t \in Threads : pc[t] \in AfterTestPcs /\ retcode[t] # 0 /\ ~shutdown[t]}
Losers == {t \in Threads : pc[t] \in AfterTestPcs /\ retcode[t] # 0 /\ shutdown[t]}
\* threads that have called exit() from safeExit()
Exiters == {t \in Threads : pc[t] \in DtorPcs \cup {"exited"} /\ retcode[t] # 0}
fconfigCalls == Len(SelectSeq(log, LAMBDA e : e = "fconfig"))

\* C1: of the threads racing in safeExit() exactly one calls exit() and the
\* others call pthread_exit(0); cleanup() is run once, by the thread that
\* exits, and by none of the others.
C1_OneExitOthersPthreadExit ==
  /\ Cardinality(Winners) <= 1
  /\ Losers # {} => Cardinality(Winners) = 1
  /\ Exiters \subseteq Winners
  /\ \A t \in Threads : pc[t] = "pthread_exit" => t \in Losers
  /\ \A t \in Losers : pc[t] \in {"se_unlock", "se_end", "pthread_exit"}
  /\ Len(cleanupBy) <= 1
  /\ \A i \in 1..Len(cleanupBy) : cleanupBy[i] \in Winners
  /\ \A t \in Winners : pc[t] \in AfterDeletePcs => cleanupBy = <<t>>

C1_Witness ==
  \E a, b \in Threads :
    /\ a # b
    /\ pc[a] = "exited"
    /\ pc[b] = "pthread_exit"
    /\ retcode[a] # retcode[b]
    /\ cleanupBy = <<a>>

\* C2 (as claimed): the body of init() runs once and no call of init() returns
\* before the body has completed.
C2_InitReturnsAfterBody ==
  [][/\ initRuns' <= 1
     /\ \A t \in Threads :
          (pc[t] \in InitPcs /\ pc'[t] \notin InitPcs) => initRuns' >= 1]_vars

\* C3 (as claimed): when the process has ended through the destructor, every
\* teardown action has been performed exactly once.
C3_TeardownExactlyOnce ==
  dtorDone => (Len(cleanupBy) = 1 /\ fconfigCalls = 1)

\* C3 (amended): cleanup() runs at most once per process and only in
\* safeExit(); the destructor does not test deadYet: it always calls
\* fconfig_deleteinstance (a second call when safeExit ran) and sets deadYet,
\* and it kills no registry, so without safeExit the registries stay as they
\* were.
C3_TeardownPaths ==
  LET dtorDeleted == exiting # NoThread
                       /\ pc[exiting] \in {"gc_dead", "gc_unlock", "exited"}
      safeDeleted == \E t \in Winners :
                       cleanupBy = <<t>> /\ pc[t] \in AfterDeletePcs
  IN  /\ Len(cleanupBy) <= 1
      /\ \A i \in 1..Len(cleanupBy) : cleanupBy[i] \in Winners
      /\ dtorDone => deadYet /\ dtorDeleted
      /\ fconfigCalls = (IF dtorDeleted THEN 1 ELSE 0)
                          + (IF safeDeleted THEN 1 ELSE 0)
      /\ Winners = {} =>
           /\ \A r \in Registries : reg[r] # "killed"
           /\ \A i \in 1..Len(log) : log[i] = "fconfig"

C3_Witness ==
  /\ dtorDone
  /\ fconfigCalls = 2
  /\ \E t \in Threads : cleanupBy = <<t>> /\ exiting = t

\* C4: deadYet starts false and, once true, no step makes it false again.
C4_DeadYetMonotonic ==
  [][deadYet => deadYet']_vars

C4_Witness ==
  /\ deadYet
  /\ dtorDone
  /\ cleanupBy # <<>>
  /\ initRuns = 1
  /\ dpy3D # 0

C6_EnableClearsAtZeroOnly ==
  [][\A t \in Threads :
       /\ tls'[t].FakerLevel = tls[t].FakerLevel + 1
            => tls'[t].ExcludeCurrent
       /\ tls'[t].FakerLevel = tls[t].FakerLevel - 1
            => tls'[t].ExcludeCurrent =
                 (IF tls'[t].FakerLevel <= 0 THEN FALSE
                  ELSE tls[t].ExcludeCurrent)]_vars

\* C14: the nesting is symmetric and unchecked: on every thread FakerLevel
\* is the number of _vgl_disableFaker() calls less the number of
\* _vgl_enableFaker() calls, so k calls of each leave it at its starting
\* value 0, and more enables than disables take it below zero: no call is
\* refused and the level is not clamped.
C14_NestingUnchecked ==
  \A t \in Threads :
    tls[t].FakerLevel = fakerCalls[t].disable - fakerCalls[t].enable

C14_Witness ==
  \E t, u \in Threads :
    /\ fakerCalls[t] = [disable |-> 2, enable |-> 2]
    /\ tls[t].FakerLevel = 0
    /\ fakerCalls[u] = [disable |-> 1, enable |-> 3]
    /\ tls[u].FakerLevel = -2

\* C15: every thread starts with FakerLevel 0, ExcludeCurrent false and the
\* autotest color and frame at -1, and a call of _vgl_disableFaker() or
\* _vgl_enableFaker() by one thread leaves the thread-local variables of
\* every other thread as they were.
C15_ThreadIsolation ==
  /\ [](\A t \in Threads :
          fakerCalls[t] = [disable |-> 0, enable |-> 0]
            => /\ tls[t].FakerLevel = 0
               /\ tls[t].ExcludeCurrent = FALSE
               /\ tls[t].AutotestColor = -1
               /\ tls[t].AutotestRColor = -1
               /\ tls[t].AutotestFrame = -1)
  /\ [][\A t \in Threads :
          fakerCalls'[t] # fakerCalls[t]
            => \A u \in Threads \ {t} : tls'[u] = tls[u]]_vars

C15_Witness ==
  \E t, u \in Threads :
    /\ fakerCalls[t] = [disable |-> 2, enable |-> 1]
    /\ tls[t].FakerLevel = 1
    /\ fakerCalls[u] = [disable |-> 0, enable |-> 0]
    /\ tls[u] = TlsDefault

\* --------------------------------------- isDisplayStringExcluded: claims

\* the tokens of a list: its maximal runs of characters that are no delimiter
TokensOf(l) ==
  {SubSeq(l, i, j) : <<i, j>> \in
     {ij \in (1..Len(l)) \X (1..Len(l)) :
        /\ ij[1] <= ij[2]
        /\ \A k \in ij[1]..ij[2] : l[k] \notin Delims
        /\ ij[1] = 1 \/ l[ij[1] - 1] \in Delims
        /\ ij[2] = Len(l) \/ l[ij[2] + 1] \in Delims}}

ToUpper(c) == IF c = "a" THEN "A" ELSE c
SameIgnoringCase(x, y) ==
  /\ Len(x) = Len(y)
  /\ \A i \in 1..Len(x) : ToUpper(x[i]) = ToUpper(y[i])

\* C8: isDisplayStringExcluded(name) is true exactly when name equals,
\* ignoring letter case, one of the tokens of the list split at comma, space
\* and tab; so it is false for the empty list and for a proper prefix or
\* substring of a token.
C8_ExcludedIffToken ==
  exCalled =>
    (exResult = (\E tok \in TokensOf(exList) : SameIgnoringCase(exName, tok)))

C8_Witness ==
  /\ exCalled
  /\ exResult
  /\ exList = <<"b", "\t", "a">>
  /\ exName = <<"A">>

\* ---------------------------------------------------- frame channel: claims

RECURSIVE IsPrefix(_, _)
IsPrefix(a, b) ==
  \/ a = <<>>
  \/ /\ b # <<>>
     /\ Head(a) = Head(b)
     /\ IsPrefix(Tail(a), Tail(b))

FrameIds(q) == [k \in 1..Len(q) |-> <<q[k].i, q[k].f>>]
OfSession(q, i) == SelectSeq(q, LAMBDA e : e.i = i)
OfWindow(q, w) == SelectSeq(q, LAMBDA e : e.winid = w)
DeliveredFrames ==
  [k \in 1..Len(delivered) |->
     [i |-> delivered[k].i, f |-> delivered[k].f, winid |-> delivered[k].hdr.winid]]

\* C16 (as claimed): every rrdisplayclient the unit test creates is deleted,
\* and its session closed, before main() ends, also when getbitmap() or
\* sendframe() raises an error.
C16_ClientsDeleted ==
  hpc = "done" => deleted = created /\ chState = "Closed"

\* the loop of main() ran to its end: no error sent control to the handler
LoopCompleted == hpc = "done" /\ hi = argIter

\* C17: in a run without error, with iterations I and frames F, main() runs
\* I sessions one after the other, each going Closed, Connecting, Open,
\* Closed; at most one client exists at a time; each session is given
\* exactly F frames between its open and its close, and every frame is
\* submitted and sent in an open session.
C17_SessionsInSequence ==
  /\ [](/\ created - deleted \in {0, 1}
        /\ (chState = "Open" /\ ~chError) => created - deleted = 1
        /\ LoopCompleted =>
             /\ created = argIter /\ deleted = argIter
             /\ chState = "Closed"
             /\ Len(submitted) = argIter * argFrames
             /\ \A i \in 0..(argIter - 1) :
                  Len(SelectSeq(submitted, LAMBDA e : e.i = i)) = argFrames)
  /\ [][/\ chState' # chState =>
             \/ chState = "Closed" /\ chState' = "Connecting"
             \/ chState = "Connecting" /\ chState' = "Open"
             \/ chState = "Open" /\ chState' = "Closed"
             \/ chState = "Connecting" /\ chState' = "Closed" /\ hpc' = "caught"
        /\ (submitted' # submitted \/ Len(wire') > Len(wire))
             => chState = "Open" /\ chState' = "Open"
        /\ (hpc = "delete" /\ hpc' # "delete")
             => /\ chState = "Open" /\ chState' = "Closed"
                /\ Len(SelectSeq(submitted, LAMBDA e : e.i = hi)) = argFrames]_vars

C17_Witness ==
  /\ LoopCompleted
  /\ argIter = 2
  /\ argFrames = 3
  /\ Len(submitted) = 6
  /\ Len(delivered) = 5

\* C9: within a session the peer receives the frames of a window in the
\* order in which they were given to sendframe: what it has received of the
\* session is a prefix of what was submitted in it, and no frame of an
\* earlier session follows one of a later session.
C9_FramesInOrder ==
  /\ \A i \in 0..MaxIter :
       IsPrefix(FrameIds(OfSession(OfWindow(DeliveredFrames, win), i)),
                FrameIds(OfSession(OfWindow(submitted, win), i)))
  /\ \A k \in 1..Len(delivered) - 1 : delivered[k].i <= delivered[k + 1].i
  /\ Len(OfWindow(DeliveredFrames, win)) = Len(delivered)

C9_Witness ==
  /\ Len(delivered) >= 3
  /\ delivered[1].i = delivered[3].i
  /\ delivered[3].f = 2
  /\ sendq # <<>>

\* the number of strips, by the rule of the wire format
CeilDiv(a, b) == (a + b - 1) \div b

\* C10: a frame cut into strips of stripHeight rows travels as
\* ceil(height / stripHeight) strips whose lengths add up to the declared
\* payload size, and the peer rebuilds the header fields unchanged.
C10_StripRoundTrip ==
  \A k \in 1..Len(delivered) :
    LET d == delivered[k]
        orig == submitted[k]
    IN  /\ d.hdr = HeaderOf(orig)
        /\ d.strips = CeilDiv(orig.h, orig.sh)
        /\ d.got = orig.w * orig.h * PixelSize

C10_Witness ==
  /\ Len(delivered) = 1
  /\ delivered[1].hdr.h = HEIGHT
  /\ delivered[1].hdr.sh = 64
  /\ delivered[1].strips = 5
  /\ delivered[1].hdr.w = MaxDim

\* ------------------------------------------------ shutdown order: claims

\* C12: safeExit() sets deadYet before it kills a registry, and tests and
\* sets the flag and kills the registries while it holds the global critical
\* section: whenever a registry has been killed deadYet is true, and the
\* thread that kills a registry or leaves the test of deadYet is the owner of
\* the critical section.
C12_DeadYetBeforeKill ==
  /\ []((\E r \in Registries : reg[r] = "killed") => deadYet)
  /\ [][/\ (\E r \in Registries : reg[r] # "killed" /\ reg'[r] = "killed")
             => /\ deadYet
                /\ \E t \in Threads :
                     /\ mutexOwner = t /\ mutexOwner' = t
                     /\ pc[t] = "se_kill"
        /\ \A t \in Threads :
             pc[t] = "se_test" /\ pc'[t] # "se_test"
               => mutexOwner = t /\ mutexOwner' = t]_vars

C12_Witness ==
  /\ reg["vishash"] = "killed"
  /\ reg["winhash"] = "alloc"
  /\ \E t, u \in Threads :
       /\ pc[t] = "se_kill" /\ mutexOwner = t
       /\ pc[u] = "se_lock"

\* C18: the 3D display is opened at most once: dpy3D is written only by a
\* thread of init3D() that holds the critical section, and only when it is
\* NULL; so it never changes once it is not NULL, and every call of init3D()
\* that returns, returns that one handle.
C18_Dpy3DOpenedOnce ==
  [][/\ dpy3D' # dpy3D =>
          /\ dpy3D = 0
          /\ \E t \in Threads :
               /\ pc[t] = "i3_lock" /\ pc'[t] = "i3_unlock"
               /\ mutexOwner' = t
               /\ dpy3D' = t
     /\ \A t \in Threads :
          (pc[t] \in {"i3_fast", "i3_unlock"} /\ pc'[t] = "idle")
            => dpy3D # 0 /\ dpy3D' = dpy3D]_vars

C18_Witness ==
  \E t, u \in Threads :
    /\ t # u
    /\ dpy3D = t
    /\ pc[t] = "idle"
    /\ pc[u] = "i3_unlock"
    /\ mutexOwner = u

\* positions inside safeExit()
SafeExitPcs == {"se_lock", "se_test", "se_kill", "se_free", "se_delete",
                "se_unlock", "se_end"}

\* C19: safeExit() does not return, and it calls exit() or pthread_exit()
\* only after it has given back the acquisition of the critical section it
\* made at entry: the lock of entry adds one level, the unlock before
\* exit()/pthread_exit() removes one, between the two the thread owns the
\* critical section, and what a thread still holds when it ends is at most
\* the one level of its caller's SafeLock.
C19_SafeExitReleasesLock ==
  /\ [](\A t \in Threads :
          /\ pc[t] \in {"se_test", "se_kill", "se_free", "se_delete", "se_unlock"}
               => mutexOwner = t /\ mutexCount >= 1
          /\ (pc[t] \in {"se_end", "pthread_exit", "exit_blocked"} /\ mutexOwner = t)
               => mutexCount = 1)
  /\ [][\A t \in Threads :
          /\ (pc[t] = "se_lock" /\ pc'[t] # "se_lock")
               => /\ pc'[t] = "se_test"
                  /\ mutexOwner' = t
                  /\ mutexCount' = mutexCount + 1
          /\ (pc[t] = "se_unlock" /\ pc'[t] # "se_unlock")
               => /\ pc'[t] = "se_end"
                  /\ mutexCount' = mutexCount - 1
          /\ pc[t] \in SafeExitPcs => pc'[t] # "idle"
          /\ (pc[t] \in SafeExitPcs /\ pc'[t] \notin SafeExitPcs)
               => /\ pc[t] = "se_end"
                  /\ pc'[t] \in {"gc_get", "pthread_exit", "exit_blocked",
                                 "exited"}]_vars

C19_Witness ==
  \E t, u \in Threads :
    /\ pc[u] = "pthread_exit" /\ shutdown[u]
    /\ mutexOwner = t
    /\ pc[t] = "gc_delete" /\ retcode[t] # 0 /\ ~shutdown[t]

\* C20 (as claimed): the destructor does not create the critical section and
\* runs without locking if there is none; deadYet is true when it has
\* finished; and whenever the critical section exists the destructor writes
\* deadYet while holding it.
C20_DtorLocksIfExists ==
  /\ [](dtorDone => deadYet)
  /\ [][\A t \in Threads :
          /\ (pc[t] \in DtorPcs /\ pc'[t] # pc[t]) => gcsAlloc' = gcsAlloc
          /\ (pc[t] = "gc_get" /\ pc'[t] # "gc_get" /\ ~gcsAlloc)
               => pc'[t] = "gc_delete" /\ UNCHANGED <<mutexOwner, mutexCount>>
          /\ (pc[t] = "gc_dead" /\ pc'[t] = "gc_unlock")
               => /\ deadYet'
                  /\ gcsAlloc => mutexOwner = t]_vars

\* the documented order of teardown
DocumentedOrder ==
  <<"pmhash", "vishash", "ctxhash", "glxdhash", "winhash", "epbhash",
    "ectxhash", "ecfghash", "glExtensions", "symbols", "fconfig">>
RankOf(e) == CHOOSE k \in 1..Len(DocumentedOrder) : DocumentedOrder[k] = e

\* C13: every shutdown kills the registries in the one documented order
\* (pixmap, visual, context, GLX drawable, window, then with EGL the pbuffer,
\* context and config registries), releases the extension string, the symbols
\* and the configuration only when no registry is left allocated, and calls
\* exit() with the caller's code only after all of that.
C13_TeardownOrder ==
  LET own == IF dtorDone \/ (exiting # NoThread
                             /\ pc[exiting] \in {"gc_dead", "gc_unlock"})
               THEN SubSeq(log, 1, Len(log) - 1) ELSE log
  IN  /\ \A i, j \in 1..Len(own) : i < j => RankOf(own[i]) < RankOf(own[j])
      /\ (\E i \in 1..Len(own) : own[i] \notin Registries)
           => \A r \in Registries : reg[r] # "alloc"
      /\ \A r \in Registries \ BuildRegistries : reg[r] = "none"
      /\ exiting # NoThread =>
           /\ exitCode = retcode[exiting]
           /\ Len(own) >= 3
           /\ SubSeq(own, Len(own) - 2, Len(own))
                = <<"glExtensions", "symbols", "fconfig">>

C13_Witness ==
  /\ eglBackend
  /\ terminated
  /\ exitCode = 2
  /\ log = <<"pmhash", "vishash", "ctxhash", "glxdhash", "winhash", "epbhash",
             "ectxhash", "ecfghash", "glExtensions", "symbols", "fconfig",
             "fconfig">>

\* -------------------------------------------------------- rrsocket: claims

\* C11: close() is idempotent: a close() on a connection that is already
\* closed, the destructor's included, changes nothing but the count of calls;
\* no close() raises an error, and neither the descriptor nor the TLS session
\* is released more often than it was opened.
C11_CloseIdempotent ==
  /\ [](\A s \in Socks :
          /\ sock[s].errors = 0
          /\ sock[s].sdReleased <= sock[s].sdOpened
          /\ sock[s].sslFreed <= sock[s].sslOpened)
  /\ [][\A s \in Socks :
          (/\ sock[s].closeCalls >= 1
           /\ ~sock[s].sd
           /\ ~sock[s].ssl
           /\ sock'[s].closeCalls = sock[s].closeCalls + 1)
          => sock'[s] = [sock[s] EXCEPT !.closeCalls = @ + 1,
                                        !.status = sock'[s].status]]_vars

C11_Witness ==
  /\ sock["ssl"].status = "destroyed"
  /\ sock["ssl"].closeCalls = 3
  /\ sock["ssl"].sdOpened = 1
  /\ sock["ssl"].sdReleased = 1
  /\ sock["ssl"].sslFreed = 1

====
